---- MODULE Spec2Model ----
(***************************************************************************)
(* Re-Pair style greedy pair compression (jooalee64/llm_tokenizer).        *)
(*                                                                         *)
(* compressor_solution.compress_text is modelled statement by statement:   *)
(* the arrays char / prev / next_arr are functions over the node indices   *)
(* 0..n-1 with the sentinel -1, the dicts pair_count / pair_first_pos are  *)
(* functions over the pairs seen so far together with their insertion      *)
(* order, and every loop iteration is one step of the state machine.       *)
(* Symbols are one-character strings; chr() is the table ChrTable.         *)
(***************************************************************************)
EXTENDS Integers, Sequences, FiniteSets, TLC

\* ------------------------------------------------------------------ bounds
MaxLen == 7
MaxK == 3
MaxPerm == 7

\* ------------------------------------------------------- program constants
OrdA == 65
FloatInf == 1000000
NoNode == -1

Sigma == {"a", "b"}

\* chr(o) for o in 65..122: 'A'..'Z', the six marks 91..96 (chr(96) is
\* written <grave>), 'a'..'z'
ChrTable ==
  << "A", "B", "C", "D", "E", "F", "G", "H", "I", "J", "K", "L", "M",
     "N", "O", "P", "Q", "R", "S", "T", "U", "V", "W", "X", "Y", "Z",
     "[", "\\", "]", "^", "_", "<grave>",
     "a", "b", "c", "d", "e", "f", "g", "h", "i", "j", "k", "l", "m",
     "n", "o", "p", "q", "r", "s", "t", "u", "v", "w", "x", "y", "z" >>

Chr(o) == ChrTable[o - 64]

Lowercase == { ChrTable[x] : x \in 33..58 }

\* the entries of the test_cases table of run_tests that fit a small model
FixtureTable ==
  { [text |-> << "a", "b", "a", "b", "c", "a", "b", "a", "b", "c" >>, k |-> 2,
     expected |-> << "B", "c", "B", "c" >>],
    [text |-> << "a", "a", "a", "a", "a" >>, k |-> 1,
     expected |-> << "A", "A", "a" >>],
    [text |-> << "a", "a", "b", "b", "c", "c" >>, k |-> 1,
     expected |-> << "a", "a", "b", "b", "c", "c" >>],
    [text |-> << "a", "b", "c", "a", "b", "c" >>, k |-> 1,
     expected |-> << "A", "c", "A", "c" >>],
    [text |-> << "a", "b", "c", "d", "e", "f", "g" >>, k |-> 1,
     expected |-> << "a", "b", "c", "d", "e", "f", "g" >>],
    [text |-> << "a", "a" >>, k |-> 1,
     expected |-> << "a", "a" >>],
    [text |-> << "a", "a", "a", "a" >>, k |-> 2,
     expected |-> << "A", "A" >>],
    [text |-> << "a", "a", "a", "a", "a", "a" >>, k |-> 2,
     expected |-> << "B", "A" >>],
    [text |-> << "a", "b", "a", "b", "a", "b", "a", "b" >>, k |-> 2,
     expected |-> << "B", "B" >>],
    [text |-> << "a", "a", "b", "b", "a", "a", "b", "b" >>, k |-> 2,
     expected |-> << "B", "b", "B", "b" >>],
    [text |-> << "x", "y", "z", "x", "y", "z", "x", "y", "z" >>, k |-> 1,
     expected |-> << "A", "z", "A", "z", "A", "z" >>],
    [text |-> << "m", "i", "s", "s", "i", "s", "s", "i", "p", "p", "i" >>, k |-> 1,
     expected |-> << "m", "A", "s", "A", "s", "i", "p", "p", "i" >>],
    [text |-> << "b", "a", "n", "a", "n", "a" >>, k |-> 2,
     expected |-> << "b", "A", "A", "a" >>],
    [text |-> << "b", "o", "o", "k", "k", "e", "e", "p", "e", "r" >>, k |-> 2,
     expected |-> << "b", "o", "o", "k", "k", "e", "e", "p", "e", "r" >>],
    [text |-> << "a", "a", "a", "b", "b", "b" >>, k |-> 2,
     expected |-> << "A", "a", "B", "b" >>],
    [text |-> << "a", "a", "b", "b", "a", "a" >>, k |-> 1,
     expected |-> << "A", "b", "b", "A" >>] }

Fixtures == { f.text : f \in FixtureTable }

Strings(S, m) == UNION { [1..l -> S] : l \in 0..m }

Inputs == Strings(Sigma, MaxLen) \cup Fixtures

VARIABLES
  text, k,                \* the arguments
  pc,                     \* position in compress_text
  n, char, prev, next_arr, head, new_token_ord,
  round,                  \* the loop variable _ of `for _ in range(k)`
  pair_order, pair_count, pair_first_pos,
  best_pair, best_count, best_pos, new_char,
  i,                      \* the walk cursor
  result,
  \* history (not read by the program)
  merges,                 \* number of merges so far
  merged,                 \* the <<i, j>> merged in the current round
  introduced,             \* new_char of every round that selected a winner
  removed,                \* nodes unlinked so far
  roundStart,             \* the sequence at the start of the current round
  stopped,                \* a round found no eligible pair (Engine: Stopped)
  \* one call of each implementation on the same arguments, a round a step
  rf,                     \* compressor_solution.compress_text
  hs,                     \* heap_solution.compress_text
  oh,                     \* optimized_heap_solution.compress_text
  ml                      \* heap_solution_MLE.compress_text

vars == << text, k, pc, n, char, prev, next_arr, head, new_token_ord, round,
           pair_order, pair_count, pair_first_pos, best_pair, best_count,
           best_pos, new_char, i, result, merges, merged, introduced,
           removed, roundStart, stopped, rf, hs, oh, ml >>

locals == << n, char, prev, next_arr, head, new_token_ord, round >>
index == << pair_order, pair_count, pair_first_pos >>
best == << best_pair, best_count, best_pos, new_char >>
hist == << merges, merged, introduced, removed, roundStart, stopped >>
main == << pc, locals, index, best, i, result, hist >>
calls == << rf, hs, oh, ml >>

None == << >>

\* ------------------------------------------------------------- helpers
\* line 13: `if not text or k <= 0`
EarlyReturnOnlyK(t, kk) == kk <= 0

EarlyReturn(t, kk) == t = << >> \/ kk <= 0

\* lines 16-26: the arrays after initialisation
InitChar(t) == [x \in 0..Len(t) - 1 |-> t[x + 1]]
InitPrev(t) == [x \in 0..Len(t) - 1 |-> IF x > 0 THEN x - 1 ELSE NoNode]
InitNext(t) == [x \in 0..Len(t) - 1 |-> IF x < Len(t) - 1 THEN x + 1 ELSE NoNode]

\* lines 83-89: walk from h to the sentinel collecting symbols (the fuel
\* only stops the evaluation on a chain that is not a simple path)
RECURSIVE Walk(_, _, _, _)
Walk(ch, nx, x, fuel) ==
  IF x = NoNode \/ fuel = 0 \/ x \notin DOMAIN nx THEN << >>
  ELSE << ch[x] >> \o Walk(ch, nx, nx[x], fuel - 1)

\* the node indices met by the same walk
RECURSIVE Chain(_, _, _)
Chain(nx, x, fuel) ==
  IF x = NoNode \/ fuel = 0 \/ x \notin DOMAIN nx THEN << >>
  ELSE << x >> \o Chain(nx, nx[x], fuel - 1)

Materialize == Walk(char, next_arr, head, n + 1)
LiveChain == Chain(next_arr, head, n + 1)

\* lines 38-44: one iteration of the counting loop at node x
ScanUpdate(idx, ch, nx, x) ==
  LET j == nx[x]
      pair == << ch[x], ch[j] >>
  IN IF j = NoNode THEN idx
     ELSE IF pair \notin DOMAIN idx.count
          THEN [order |-> Append(idx.order, pair),
                count |-> idx.count @@ (pair :> 1),
                first |-> idx.first @@ (pair :> x)]
          ELSE [idx EXCEPT !.count[pair] = @ + 1]

\* line 56: does the candidate replace the current best
BetterOrEqual(count, pos, bcount, bpos) == count >= bcount

BetterCountOnly(count, pos, bcount, bpos) == count > bcount

Better(count, pos, bcount, bpos) ==
  count > bcount \/ (count = bcount /\ pos < bpos)

\* lines 51-59: the single pass over pair_count.items(), in the order given
RECURSIVE PickBest(_, _, _, _, _)
PickBest(order, x, cnt, fst, b) ==
  IF x > Len(order) THEN b
  ELSE LET pair == order[x]
       IN IF Better(cnt[pair], fst[pair], b.count, b.pos)
          THEN PickBest(order, x + 1, cnt, fst,
                        [pair |-> pair, count |-> cnt[pair], pos |-> fst[pair]])
          ELSE PickBest(order, x + 1, cnt, fst, b)

BestInit == [pair |-> None, count |-> 1, pos |-> FloatInf]

\* line 62: `if best_pair is None or best_count < 2`
NoWinnerOnlyNone(b) == b.pair = None

NoWinner(b) == b.pair = None \/ b.count < 2

\* line 72: the merge condition at node x
MatchesLeftOnly(ch, nx, x, bp) == nx[x] # NoNode /\ ch[x] = bp[1]

Matches(ch, nx, x, bp) ==
  nx[x] # NoNode /\ ch[x] = bp[1] /\ ch[nx[x]] = bp[2]

\* line 78: where the walk resumes after merging x with its successor j
ResumeAtRight(nx, x, j) == j

ResumeSkipOne(nx, x, j) == IF nx[j] = NoNode THEN NoNode ELSE nx[nx[j]]

Resume(nx, x, j) == nx[j]

\* line 73
MergeChar(ch, x, nc) == [ch EXCEPT ![x] = nc]

\* lines 74-75: x takes over the successor of its successor
MergeNextKeep(nx, x) == nx

MergeNextClear(nx, x) == [nx EXCEPT ![x] = nx[nx[x]], ![nx[x]] = NoNode]

MergeNext(nx, x) == [nx EXCEPT ![x] = nx[nx[x]]]

\* lines 76-77: the back link of the new successor, when there is one
MergePrevKeep(pv, nx, x) == pv

MergePrev(pv, nx, x) ==
  LET next_j == nx[nx[x]]
  IN IF next_j # NoNode THEN [pv EXCEPT ![next_j] = x] ELSE pv

\* line 66
NextTokenSkip(o) == o + 2

NextToken(o) == o + 1

\* ------------------------------------------- the function as a whole
\* lines 36-45: the counting loop from node x on
RECURSIVE ScanFrom(_, _, _, _)
ScanFrom(idx, ch, nx, x) ==
  IF x = NoNode THEN idx
  ELSE ScanFrom(ScanUpdate(idx, ch, nx, x), ch, nx, nx[x])

EmptyIndex == [order |-> << >>, count |-> << >>, first |-> << >>]

\* lines 69-80: the replacement loop from node x on
RECURSIVE MergeFrom(_, _, _, _)
MergeFrom(st, x, bp, nc) ==
  IF x = NoNode THEN st
  ELSE IF Matches(st.char, st.next, x, bp)
       THEN MergeFrom([st EXCEPT !.char = MergeChar(st.char, x, nc),
                                 !.next = MergeNext(st.next, x),
                                 !.prev = MergePrev(st.prev, st.next, x)],
                      Resume(st.next, x, st.next[x]), bp, nc)
       ELSE MergeFrom(st, st.next[x], bp, nc)

\* lines 16-29: the store after initialisation
InitStore(t) ==
  [phase |-> "run", char |-> InitChar(t), next |-> InitNext(t),
   prev |-> InitPrev(t), tok |-> OrdA, stopped |-> FALSE, best |-> None,
   r |-> 0, wins |-> << >>, out |-> << >>]

\* a call that has not started
NotCalled ==
  [phase |-> "start", char |-> << >>, next |-> << >>, prev |-> << >>,
   tok |-> 0, stopped |-> FALSE, best |-> None, r |-> 0, wins |-> << >>,
   out |-> << >>]

\* lines 32-80: one iteration of `for _ in range(k)`
RefRound(st) ==
  LET idx == ScanFrom(EmptyIndex, st.char, st.next, 0)
      b == PickBest(idx.order, 1, idx.count, idx.first, BestInit)
  IN IF idx.order = << >> THEN [st EXCEPT !.stopped = TRUE, !.best = None]
     ELSE IF NoWinner(b) THEN [st EXCEPT !.stopped = TRUE, !.best = None]
     ELSE [MergeFrom(st, 0, b.pair, Chr(st.tok))
             EXCEPT !.tok = NextToken(st.tok), !.best = b.pair]

RECURSIVE RunRef(_, _, _)
RunRef(st, r, kk) ==
  IF r >= kk \/ st.stopped THEN st ELSE RunRef(RefRound(st), r + 1, kk)

\* lines 82-89
Output(st, t) == Walk(st.char, st.next, 0, Len(t) + 1)

\* compressor_solution.compress_text(t, kk)
CompressText(t, kk) ==
  IF EarlyReturn(t, kk) THEN t ELSE Output(RunRef(InitStore(t), 0, kk), t)

\* ------------------------------------------ the heap based selectors
\* ord() of a symbol, for the comparison of str values
Ord(c) == CHOOSE o \in 65..122 : Chr(o) = c

\* Python's `<` on the tuples (char, char)
LtPair(p, q) ==
  IF p[1] # q[1] THEN Ord(p[1]) < Ord(q[1]) ELSE Ord(p[2]) < Ord(q[2])

\* heap_solution.py line 58: `<` on the tuples (-count, first_pos, pair)
LtTuple(a, b) ==
  IF (0 - a.count) # (0 - b.count) THEN (0 - a.count) < (0 - b.count)
  ELSE IF a.first_pos # b.first_pos THEN a.first_pos < b.first_pos
  ELSE LtPair(a.pair, b.pair)

\* optimized_heap_solution.py lines 25-29: PairInfo.__lt__
LtInfoFewest(a, b) ==
  IF a.count # b.count THEN a.count < b.count
  ELSE a.first_pos < b.first_pos

LtInfo(a, b) ==
  IF a.count # b.count THEN a.count > b.count
  ELSE a.first_pos < b.first_pos

\* the `<` of the items of a heap: tuples, PairInfo objects or ints
Lt(kind, a, b) ==
  IF kind = "tuple" THEN LtTuple(a, b)
  ELSE IF kind = "info" THEN LtInfo(a, b)
  ELSE a < b

\* heapq._siftdown(heap, 0, pos) with newitem lifted out (pos is 0 based,
\* the sequence is 1 based)
RECURSIVE SiftDown(_, _, _, _)
SiftDown(kind, heap, pos, newitem) ==
  IF pos > 0
  THEN LET parentpos == (pos - 1) \div 2
           parent == heap[parentpos + 1]
       IN IF Lt(kind, newitem, parent)
          THEN SiftDown(kind, [heap EXCEPT ![pos + 1] = parent], parentpos,
                        newitem)
          ELSE [heap EXCEPT ![pos + 1] = newitem]
  ELSE [heap EXCEPT ![pos + 1] = newitem]

\* heapq.heappush(heap, item)
HeapPush(kind, heap, item) ==
  SiftDown(kind, Append(heap, item), Len(heap), item)

\* heapq._siftup(heap, pos): the loop that moves the smaller child up
RECURSIVE SiftUpLoop(_, _, _)
SiftUpLoop(kind, heap, pos) ==
  LET childpos == 2 * pos + 1
      rightpos == childpos + 1
      c == IF rightpos < Len(heap)
              /\ ~Lt(kind, heap[childpos + 1], heap[rightpos + 1])
           THEN rightpos ELSE childpos
  IN IF childpos < Len(heap)
     THEN SiftUpLoop(kind, [heap EXCEPT ![pos + 1] = heap[c + 1]], c)
     ELSE [heap |-> heap, pos |-> pos]

\* heapq._siftup(heap, pos)
SiftUp(kind, heap, pos) ==
  LET newitem == heap[pos + 1]
      l == SiftUpLoop(kind, heap, pos)
  IN SiftDown(kind, l.heap, l.pos, newitem)

\* heapq.heappop(heap): the item returned
HeapPop(heap) == heap[1]

\* heapq.heappop(heap): the heap that is left
HeapRest(kind, heap) ==
  LET lastelt == heap[Len(heap)]
      h == SubSeq(heap, 1, Len(heap) - 1)
  IN IF h # << >> THEN SiftUp(kind, [h EXCEPT ![1] = lastelt], 0) ELSE h

\* heap_solution.py lines 56-58, optimized_heap_solution.py lines 86-88
RECURSIVE BuildHeap(_, _, _, _, _)
BuildHeap(kind, order, x, data, heap) ==
  IF x > Len(order) THEN heap
  ELSE LET e == data[order[x]]
       IN IF e.count >= 2
          THEN BuildHeap(kind, order, x + 1, data, HeapPush(kind, heap, e))
          ELSE BuildHeap(kind, order, x + 1, data, heap)

\* heap_solution.py lines 41-47: pair_data is a defaultdict
HsScanUpdate(idx, ch, nx, x) ==
  LET j == nx[x]
      pair == << ch[x], ch[j] >>
      old == IF pair \in DOMAIN idx.data THEN idx.data[pair]
             ELSE [pair |-> pair, count |-> 0, positions |-> << >>,
                   first_pos |-> FloatInf]
      new == [old EXCEPT !.count = @ + 1,
                         !.positions = Append(@, x),
                         !.first_pos = IF x < @ THEN x ELSE @]
  IN IF j = NoNode THEN idx
     ELSE [order |-> IF pair \in DOMAIN idx.data THEN idx.order
                     ELSE Append(idx.order, pair),
           data |-> [q \in DOMAIN idx.data \cup {pair} |->
                       IF q = pair THEN new ELSE idx.data[q]]]

\* heap_solution.py lines 39-48
RECURSIVE HsScanFrom(_, _, _, _)
HsScanFrom(idx, ch, nx, x) ==
  IF x = NoNode THEN idx
  ELSE HsScanFrom(HsScanUpdate(idx, ch, nx, x), ch, nx, nx[x])

\* optimized_heap_solution.py lines 71-81: pair_map of PairInfo objects
OhScanUpdate(idx, ch, nx, x) ==
  LET j == nx[x]
      pair == << ch[x], ch[j] >>
      old == IF pair \in DOMAIN idx.data THEN idx.data[pair]
             ELSE [pair |-> pair, count |-> 0, first_pos |-> x,
                   active |-> TRUE]
      new == [old EXCEPT !.count = @ + 1,
                         !.first_pos = IF x < @ THEN x ELSE @]
  IN IF j = NoNode THEN idx
     ELSE [order |-> IF pair \in DOMAIN idx.data THEN idx.order
                     ELSE Append(idx.order, pair),
           data |-> [q \in DOMAIN idx.data \cup {pair} |->
                       IF q = pair THEN new ELSE idx.data[q]]]

\* optimized_heap_solution.py lines 69-83
RECURSIVE OhScanFrom(_, _, _, _)
OhScanFrom(idx, ch, nx, x) ==
  IF x = NoNode THEN idx
  ELSE OhScanFrom(OhScanUpdate(idx, ch, nx, x), ch, nx, nx[x])

EmptyData == [order |-> << >>, data |-> << >>]

Stop(st) == [st EXCEPT !.stopped = TRUE, !.best = None]

\* heap_solution.py lines 34-85: one iteration; the replacement loop of
\* lines 73-85 is the one of compressor_solution.py lines 69-80
HsRound(st) ==
  LET idx == HsScanFrom(EmptyData, st.char, st.next, 0)
      heap == BuildHeap("tuple", idx.order, 1, idx.data, << >>)
  IN IF idx.order = << >> THEN Stop(st)
     ELSE IF heap = << >> THEN Stop(st)
     ELSE [MergeFrom(st, 0, HeapPop(heap).pair, Chr(st.tok))
             EXCEPT !.tok = @ + 1, !.best = HeapPop(heap).pair]

\* optimized_heap_solution.py lines 64-119: one iteration; the replacement
\* loop of lines 102-119 is the one of compressor_solution.py lines 69-80
OhRound(st) ==
  LET idx == OhScanFrom(EmptyData, st.char, st.next, 0)
      heap == BuildHeap("info", idx.order, 1, idx.data, << >>)
  IN IF heap = << >> THEN Stop(st)
     ELSE [MergeFrom(st, 0, HeapPop(heap).pair, Chr(st.tok))
             EXCEPT !.tok = @ + 1, !.best = HeapPop(heap).pair]

\* the guard and the initialisation at the top of each compress_text
Called(t, kk) ==
  IF EarlyReturn(t, kk) THEN [NotCalled EXCEPT !.phase = "done", !.out = t]
  ELSE InitStore(t)

\* bookkeeping of one iteration: the loop count and the winners so far
Count1(st) ==
  IF st.stopped THEN st
  ELSE [st EXCEPT !.r = @ + 1, !.wins = Append(@, st.best)]

\* the result loop at the end of each compress_text
Returned(st, t) == [st EXCEPT !.phase = "done", !.out = Output(st, t)]

\* ------------------------------- the incrementally maintained index
\* heap_solution_MLE.py: cnt and pos_heaps are defaultdicts (keys holds the
\* insertion order of cnt), at_pos is a dict over node indices
DropKey(f, x) == [y \in DOMAIN f \ {x} |-> f[y]]

\* list indexing, a negative index counting from the end
At(arr, x) == arr[IF x < 0 THEN x + Cardinality(DOMAIN arr) ELSE x]

\* lines 23-30
MlAddPair(m, x) ==
  LET j == m.next[x]
      pr == << m.char[x], m.char[j] >>
      fresh == pr \notin DOMAIN m.cnt
  IN IF j = NoNode THEN m
     ELSE [m EXCEPT
             !.keys = IF fresh THEN Append(@, pr) ELSE @,
             !.cnt = IF fresh THEN @ @@ (pr :> 1)
                     ELSE [@ EXCEPT ![pr] = @ + 1],
             !.pos_heaps = IF pr \notin DOMAIN @
                           THEN @ @@ (pr :> HeapPush("int", << >>, x))
                           ELSE [@ EXCEPT ![pr] = HeapPush("int", @, x)],
             !.at_pos = [y \in DOMAIN @ \cup {x} |->
                           IF y = x THEN pr ELSE @[y]]]

\* lines 32-35
MlDelPairKeepCount(m, x) ==
  IF x \in DOMAIN m.at_pos
  THEN [m EXCEPT !.at_pos = DropKey(@, x)]
  ELSE m

MlDelPair(m, x) ==
  IF x \in DOMAIN m.at_pos
  THEN [m EXCEPT !.cnt[m.at_pos[x]] = @ - 1,
                 !.at_pos = DropKey(@, x)]
  ELSE m

\* lines 37-43: the store after the stale entries are popped, and the
\* position returned in field f (NoNode stands for None)
RECURSIVE MlGetFirst(_, _)
MlGetFirst(m, pr) ==
  IF m.pos_heaps[pr] # << >>
  THEN LET pos == m.pos_heaps[pr][1]
       IN IF pos \in DOMAIN m.at_pos /\ m.at_pos[pos] = pr
          THEN [m EXCEPT !.f = pos]
          ELSE MlGetFirst([m EXCEPT !.pos_heaps[pr] = HeapRest("int", @)],
                          pr)
  ELSE [m EXCEPT !.f = NoNode]

\* lines 55-59: the pass over list(cnt.keys()) from entry x on
RECURSIVE MlPick(_, _)
MlPick(m, x) ==
  IF x > Len(m.keys) THEN m
  ELSE LET pr == m.keys[x]
           g == MlGetFirst(m, pr)
       IN IF m.cnt[pr] >= 2
          THEN IF g.f # NoNode
                  /\ (m.cnt[pr] > m.bc \/ (m.cnt[pr] = m.bc /\ g.f < m.bf))
               THEN MlPick([g EXCEPT !.bp = pr, !.bc = m.cnt[pr],
                                     !.bf = g.f], x + 1)
               ELSE MlPick(g, x + 1)
          ELSE MlPick(m, x + 1)

\* lines 73-97: the merge at node x
MlMergeAt(m, x, nc) ==
  LET j == m.next[x]
      pi == m.prev[x]
      nj == At(m.next, j)
      d1 == IF pi # NoNode THEN MlDelPair(m, pi) ELSE m
      d2 == MlDelPair(d1, x)
      d3 == IF j # NoNode THEN MlDelPair(d2, j) ELSE d2
      mg == [d3 EXCEPT !.char[x] = nc,
                       !.next[x] = nj,
                       !.prev = IF nj # NoNode THEN [@ EXCEPT ![nj] = x]
                                ELSE @,
                       !.lm = j]
      a1 == IF pi # NoNode THEN MlAddPair(mg, pi) ELSE mg
  IN MlAddPair(a1, x)

\* lines 71-99: the merge walk from node x on
RECURSIVE MlMergeFrom(_, _, _)
MlMergeFrom(m, x, nc) ==
  IF x = NoNode THEN m
  ELSE IF x \in DOMAIN m.at_pos /\ m.at_pos[x] = m.bp /\ x # m.lm
       THEN MlMergeFrom(MlMergeAt(m, x, nc), At(m.next, m.next[x]), nc)
       ELSE MlMergeFrom(m, m.next[x], nc)

\* lines 45-49: the initial add_pair walk
RECURSIVE MlAddFrom(_, _)
MlAddFrom(m, x) ==
  IF x = NoNode THEN m ELSE MlAddFrom(MlAddPair(m, x), m.next[x])

\* lines 8-49
MlInitStore(t) ==
  MlAddFrom([phase |-> "run", char |-> InitChar(t), next |-> InitNext(t),
             prev |-> InitPrev(t), tok |-> OrdA, stopped |-> FALSE,
             best |-> None, r |-> 0, wins |-> << >>, out |-> << >>,
             keys |-> << >>, cnt |-> << >>, pos_heaps |-> << >>,
             at_pos |-> << >>, f |-> NoNode, bp |-> None, bc |-> 0,
             bf |-> Len(t), lm |-> NoNode], 0)

\* lines 5-49
MlCalled(t, kk) ==
  IF EarlyReturn(t, kk) THEN [NotCalled EXCEPT !.phase = "done", !.out = t]
  ELSE MlInitStore(t)

\* lines 51-99: one iteration of `for _ in range(k)`
MlRound(m) ==
  LET s == MlPick([m EXCEPT !.bp = None, !.bc = 0,
                            !.bf = Cardinality(DOMAIN m.char)], 1)
  IN IF s.bp = None THEN Stop(s)
     ELSE [MlMergeFrom([s EXCEPT !.lm = NoNode], 0, Chr(s.tok))
             EXCEPT !.tok = @ + 1, !.best = s.bp]

\* ------------------------------------------------------------- actions
\* nothing has run yet
Fresh ==
  /\ pc = "start"
  /\ n = 0 /\ char = << >> /\ prev = << >> /\ next_arr = << >>
  /\ head = NoNode /\ new_token_ord = 0 /\ round = 0
  /\ pair_order = << >> /\ pair_count = << >> /\ pair_first_pos = << >>
  /\ best_pair = None /\ best_count = 0 /\ best_pos = 0 /\ new_char = ""
  /\ i = NoNode
  /\ result = << >>
  /\ merges = 0 /\ merged = << >> /\ introduced = << >> /\ removed = {}
  /\ roundStart = << >> /\ stopped = FALSE
  /\ rf = NotCalled /\ hs = NotCalled /\ oh = NotCalled /\ ml = NotCalled

Init ==
  /\ text \in Inputs
  /\ k \in -1..MaxK
  /\ Fresh

\* lines 13-14
ReturnEarly ==
  /\ pc = "start"
  /\ EarlyReturn(text, k)
  /\ result' = text
  /\ pc' = "done"
  /\ UNCHANGED << calls, text, k, locals, index, best, i, hist >>

\* lines 16-29
Initialize ==
  /\ pc = "start"
  /\ ~EarlyReturn(text, k)
  /\ n' = Len(text)
  /\ char' = InitChar(text)
  /\ prev' = InitPrev(text)
  /\ next_arr' = InitNext(text)
  /\ head' = 0
  /\ new_token_ord' = OrdA
  /\ round' = 0
  /\ pc' = "loop"
  /\ UNCHANGED << calls, text, k, index, best, i, result, hist >>

\* lines 31-36: the next iteration of `for _ in range(k)` starts
RoundBegin ==
  /\ pc = "loop"
  /\ round < k
  /\ pair_order' = << >> /\ pair_count' = << >> /\ pair_first_pos' = << >>
  /\ i' = head
  /\ pc' = "scan"
  /\ roundStart' = Materialize
  /\ merged' = << >>
  /\ UNCHANGED << calls, text, k, locals, best, result, merges, introduced,
                  removed, stopped >>

\* line 31: range(k) is exhausted
LoopExhausted ==
  /\ pc = "loop"
  /\ round >= k
  /\ pc' = "build"
  /\ UNCHANGED << calls, text, k, locals, index, best, i, result, hist >>

\* lines 37-45: one iteration of the counting loop (an index outside the
\* list raises IndexError)
ScanStep ==
  /\ pc = "scan"
  /\ i # NoNode
  /\ IF i \notin DOMAIN next_arr
     THEN /\ pc' = "error"
          /\ UNCHANGED << index, i >>
     ELSE LET idx == ScanUpdate([order |-> pair_order, count |-> pair_count,
                                 first |-> pair_first_pos], char, next_arr, i)
          IN /\ pair_order' = idx.order
             /\ pair_count' = idx.count
             /\ pair_first_pos' = idx.first
             /\ i' = next_arr[i]
             /\ pc' = "scan"
  /\ UNCHANGED << calls, text, k, locals, best, result, hist >>

\* lines 47-48: no pair at all
BreakEmpty ==
  /\ pc = "scan"
  /\ i = NoNode
  /\ pair_order = << >>
  /\ pc' = "build"
  /\ stopped' = TRUE
  /\ UNCHANGED << calls, text, k, locals, index, best, i, result, merges, merged,
                  introduced, removed, roundStart >>

\* lines 50-63: the pass finds no pair that occurs twice
BreakNoWinner ==
  /\ pc = "scan"
  /\ i = NoNode
  /\ pair_order # << >>
  /\ LET b == PickBest(pair_order, 1, pair_count, pair_first_pos, BestInit)
     IN /\ NoWinner(b)
        /\ best_pair' = b.pair /\ best_count' = b.count /\ best_pos' = b.pos
  /\ pc' = "build"
  /\ stopped' = TRUE
  /\ UNCHANGED << calls, text, k, locals, index, new_char, i, result, merges,
                  merged, introduced, removed, roundStart >>

\* lines 50-69: the pass finds a winner; the next token is allocated
SelectWinner ==
  /\ pc = "scan"
  /\ i = NoNode
  /\ pair_order # << >>
  /\ LET b == PickBest(pair_order, 1, pair_count, pair_first_pos, BestInit)
     IN /\ ~NoWinner(b)
        /\ best_pair' = b.pair /\ best_count' = b.count /\ best_pos' = b.pos
  /\ new_char' = Chr(new_token_ord)
  /\ new_token_ord' = NextToken(new_token_ord)
  /\ introduced' = Append(introduced, Chr(new_token_ord))
  /\ i' = head
  /\ pc' = "merge"
  /\ UNCHANGED << calls, text, k, n, char, prev, next_arr, head, round, index,
                  result, merges, merged, removed, roundStart, stopped >>

\* lines 70-78: node i and its successor carry the winning pair
MergeStep ==
  /\ pc = "merge"
  /\ i # NoNode
  /\ Matches(char, next_arr, i, best_pair)
  /\ LET j == next_arr[i]
     IN /\ char' = MergeChar(char, i, new_char)
        /\ next_arr' = MergeNext(next_arr, i)
        /\ prev' = MergePrev(prev, next_arr, i)
        /\ i' = Resume(next_arr, i, j)
        /\ merged' = Append(merged, << i, j >>)
        /\ removed' = removed \cup {j}
  /\ merges' = merges + 1
  /\ UNCHANGED << calls, text, k, pc, n, head, new_token_ord, round, index, best,
                  result, introduced, roundStart, stopped >>

\* lines 79-80
AdvanceStep ==
  /\ pc = "merge"
  /\ i # NoNode
  /\ ~Matches(char, next_arr, i, best_pair)
  /\ i' = next_arr[i]
  /\ UNCHANGED << calls, text, k, pc, locals, index, best, result, hist >>

\* line 70 fails: the walk is over, back to the for loop
RoundEnd ==
  /\ pc = "merge"
  /\ i = NoNode
  /\ round' = round + 1
  /\ pc' = "loop"
  /\ UNCHANGED << calls, text, k, n, char, prev, next_arr, head, new_token_ord,
                  index, best, i, result, hist >>

\* lines 82-89
Build ==
  /\ pc = "build"
  /\ result' = Materialize
  /\ pc' = "done"
  /\ UNCHANGED << calls, text, k, locals, index, best, i, hist >>

Next ==
  \/ ReturnEarly
  \/ Initialize
  \/ RoundBegin
  \/ LoopExhausted
  \/ ScanStep
  \/ BreakEmpty
  \/ BreakNoWinner
  \/ SelectWinner
  \/ MergeStep
  \/ AdvanceStep
  \/ RoundEnd
  \/ Build

Spec == Init /\ [][Next]_vars

\* calls with k beyond the 26 rounds of the docstring (line 8): a text of 69
\* lowercase letters in which 34 rounds find a pair that occurs twice, and
\* a text without any pair
LongW ==
  << "b", "c", "d", "e", "f", "g", "h", "i", "j", "k", "l", "m", "n",
     "o", "p", "q", "r", "s", "t", "u", "v", "w", "x", "y", "z", "b",
     "d", "f", "h", "j", "l", "n", "p", "r" >>

LongText == LongW \o LongW \o << "a" >>

LongInputs == { LongText, << "a" >> }

LongKs == { 0, 33, 40 }

InitLong ==
  /\ text \in LongInputs
  /\ k \in LongKs
  /\ Fresh

SpecLong == InitLong /\ [][Next]_vars

\* ------------------------------------- the implementations side by side
RfStart ==
  /\ rf.phase = "start"
  /\ rf' = Called(text, k)
  /\ UNCHANGED << text, k, main, hs, oh, ml >>

RfRound ==
  /\ rf.phase = "run" /\ rf.r < k /\ ~rf.stopped
  /\ rf' = Count1(RefRound(rf))
  /\ UNCHANGED << text, k, main, hs, oh, ml >>

RfReturn ==
  /\ rf.phase = "run" /\ (rf.r >= k \/ rf.stopped)
  /\ rf' = Returned(rf, text)
  /\ UNCHANGED << text, k, main, hs, oh, ml >>

HsStart ==
  /\ hs.phase = "start"
  /\ hs' = Called(text, k)
  /\ UNCHANGED << text, k, main, rf, oh, ml >>

HsStep ==
  /\ hs.phase = "run" /\ hs.r < k /\ ~hs.stopped
  /\ hs' = Count1(HsRound(hs))
  /\ UNCHANGED << text, k, main, rf, oh, ml >>

HsReturn ==
  /\ hs.phase = "run" /\ (hs.r >= k \/ hs.stopped)
  /\ hs' = Returned(hs, text)
  /\ UNCHANGED << text, k, main, rf, oh, ml >>

OhStart ==
  /\ oh.phase = "start"
  /\ oh' = Called(text, k)
  /\ UNCHANGED << text, k, main, rf, hs, ml >>

OhStep ==
  /\ oh.phase = "run" /\ oh.r < k /\ ~oh.stopped
  /\ oh' = Count1(OhRound(oh))
  /\ UNCHANGED << text, k, main, rf, hs, ml >>

OhReturn ==
  /\ oh.phase = "run" /\ (oh.r >= k \/ oh.stopped)
  /\ oh' = Returned(oh, text)
  /\ UNCHANGED << text, k, main, rf, hs, ml >>

NextHeap ==
  \/ RfStart \/ RfRound \/ RfReturn
  \/ HsStart \/ HsStep \/ HsReturn
  \/ OhStart \/ OhStep \/ OhReturn

SpecHeap == Init /\ [][NextHeap]_vars

MlStart ==
  /\ ml.phase = "start"
  /\ ml' = MlCalled(text, k)
  /\ UNCHANGED << text, k, main, rf, hs, oh >>

MlStep ==
  /\ ml.phase = "run" /\ ml.r < k /\ ~ml.stopped
  /\ ml' = Count1(MlRound(ml))
  /\ UNCHANGED << text, k, main, rf, hs, oh >>

MlReturn ==
  /\ ml.phase = "run" /\ (ml.r >= k \/ ml.stopped)
  /\ ml' = Returned(ml, text)
  /\ UNCHANGED << text, k, main, rf, hs, oh >>

NextMLE ==
  \/ RfStart \/ RfRound \/ RfReturn
  \/ MlStart \/ MlStep \/ MlReturn

SpecMLE == Init /\ [][NextMLE]_vars

\* ---------------------------------------------------------- properties
\* the adjacent pairs of a sequence, every position counted
PairAt(s, x) == << s[x], s[x + 1] >>
PairsOf(s) == { PairAt(s, x) : x \in 1..Len(s) - 1 }
Occ(s, p) == { x \in 1..Len(s) - 1 : PairAt(s, x) = p }
Count(s, p) == Cardinality(Occ(s, p))
First(s, p) == CHOOSE x \in Occ(s, p) : \A y \in Occ(s, p) : x <= y
AllOnce(s) == \A p \in PairsOf(s) : Count(s, p) = 1
Range(s) == { s[x] : x \in 1..Len(s) }

\* p is the pair the ordering rule picks in s
RuleChoice(s, p) ==
  /\ p \in PairsOf(s)
  /\ Count(s, p) >= 2
  /\ \A q \in PairsOf(s) :
       /\ Count(s, q) <= Count(s, p)
       /\ (q # p /\ Count(s, q) = Count(s, p)) => First(s, p) < First(s, q)

\* C1: the pair merged in a round is, among the adjacent pairs of the
\* sequence at the start of the round, the one with the maximal count, the
\* leftmost first occurrence breaking ties, and its count is at least 2; a
\* round stops only when no pair has count 2
C1_Selection ==
  /\ pc = "merge" => RuleChoice(roundStart, best_pair)
                     /\ best_count = Count(roundStart, best_pair)
  /\ stopped => \A q \in PairsOf(roundStart) : Count(roundStart, q) < 2

C1_Witness ==
  /\ pc = "merge"
  /\ \E q \in PairsOf(roundStart) :
       /\ q # best_pair
       /\ Count(roundStart, q) = best_count
  /\ \E q \in PairsOf(roundStart) : Count(roundStart, q) < best_count

\* C2: a merge of node i with its successor j resumes the walk at the node
\* that followed j, and the node pairs merged within one round are pairwise
\* disjoint
DisjointMerges(ms) ==
  \A a, b \in 1..Len(ms) :
    a # b => {ms[a][1], ms[a][2]} \cap {ms[b][1], ms[b][2]} = {}

C2_NonOverlap ==
  [][merges' = merges + 1 =>
       /\ i' = next_arr[next_arr[i]]
       /\ merged' = Append(merged, << i, next_arr[i] >>)
       /\ DisjointMerges(merged')]_vars

C2_Witness ==
  /\ text = << "a", "a", "a", "a", "a" >>
  /\ pc = "merge" /\ i = NoNode
  /\ merged = << << 0, 1 >>, << 2, 3 >> >>
  /\ Materialize = << "A", "A", "a" >>

\* C3: with an empty text or k <= 0 the call returns text itself: nothing
\* is initialised, merged or allocated, and no error is raised
C3_NoOp ==
  (text = << >> \/ k <= 0) =>
    /\ pc \in {"start", "done"}
    /\ merges = 0 /\ introduced = << >> /\ new_token_ord = 0
    /\ pc = "done" => result = text

C3_Witness ==
  /\ pc = "done" /\ k <= 0 /\ Len(text) >= 2 /\ result = text

\* C4: a round that starts on a sequence in which no pair occurs twice
\* merges nothing and allocates nothing, the engine stops, the output is the
\* sequence at the start of that round, and every larger k gives the same
\* output
C4_StopState ==
  /\ pc = "merge" => ~AllOnce(roundStart)
  /\ stopped =>
       /\ AllOnce(roundStart)
       /\ pc \in {"build", "done"}
       /\ merged = << >>
       /\ Len(introduced) = round
       /\ new_token_ord = OrdA + round
       /\ Materialize = roundStart
       /\ pc = "done" =>
            /\ result = roundStart
            /\ \A k2 \in k..MaxK + 2 : CompressText(text, k2) = result

C4_Terminal ==
  [](C4_StopState) /\ [][stopped => stopped' /\ Materialize' = Materialize]_vars

C4_Witness ==
  /\ pc = "done" /\ stopped
  /\ round >= 1 /\ round + 1 < k
  /\ Len(result) >= 2

\* C5: the output is len(text) minus the number of merges long, never
\* longer than text, and the working sequence never grows
C5_LengthState ==
  /\ pc \notin {"start", "done"} => Len(Materialize) = Len(text) - merges
  /\ pc = "done" => /\ Len(result) = Len(text) - merges
                    /\ Len(result) <= Len(text)
                    /\ result = CompressText(text, k)

C5_Length ==
  [](C5_LengthState)
  /\ [][pc # "start" => Len(Materialize') <= Len(Materialize)]_vars

C5_Witness ==
  /\ pc = "done" /\ merges >= 3 /\ round >= 2
  /\ Len(result) = Len(text) - merges

\* C6: the rounds that select a winner introduce 'A', 'B', 'C', ... in this
\* order without a gap, one per round, a stopping round introduces none,
\* their number is at most k, and the output holds at most k distinct
\* symbols that are not symbols of text
SynAlphabet ==
  << "A", "B", "C", "D", "E", "F", "G", "H", "I", "J", "K", "L", "M",
     "N", "O", "P", "Q", "R", "S", "T", "U", "V", "W", "X", "Y", "Z" >>

C6_Tokens ==
  /\ Len(introduced) <= Len(SynAlphabet)
  /\ introduced = SubSeq(SynAlphabet, 1, Len(introduced))
  /\ Len(introduced) = round + (IF pc = "merge" THEN 1 ELSE 0)
  /\ introduced # << >> => Len(introduced) <= k
  /\ pc \notin {"start", "done"} => new_token_ord = OrdA + Len(introduced)
  /\ pc = "merge" => new_char = introduced[Len(introduced)]
  /\ pc \notin {"start"} /\ ~EarlyReturn(text, k) =>
       Range(Materialize) \ Range(text) \subseteq Range(introduced)
  /\ pc = "done" /\ k >= 0 =>
       /\ Range(result) \ Range(text) \subseteq Range(introduced)
       /\ Cardinality(Range(result) \ Range(text)) <= k

C6_Witness ==
  /\ pc = "done" /\ introduced = << "A", "B", "C" >>
  /\ "C" \in Range(result)

\* C10: between merges the live chain from head is a simple path to the
\* sentinel with len(text) - merges nodes and increasing indices, head is
\* node 0, back links mirror forward links, no node is created and no
\* removed node is linked again
Live == Range(LiveChain)

C10_Chain ==
  pc \notin {"start"} /\ ~EarlyReturn(text, k) =>
    /\ head = 0
    /\ DOMAIN char = 0..Len(text) - 1
    /\ DOMAIN next_arr = 0..Len(text) - 1
    /\ DOMAIN prev = 0..Len(text) - 1
    /\ Len(LiveChain) = Len(text) - merges
    /\ Cardinality(Live) = Len(LiveChain)
    /\ next_arr[LiveChain[Len(LiveChain)]] = NoNode
    /\ prev[head] = NoNode
    /\ \A x \in 1..Len(LiveChain) - 1 :
         /\ LiveChain[x] < LiveChain[x + 1]
         /\ prev[LiveChain[x + 1]] = LiveChain[x]
    /\ Live \cap removed = {}
    /\ Live \cup removed = 0..Len(text) - 1
    /\ Cardinality(removed) = merges
    /\ i # NoNode => i \in Live

C10_Witness ==
  /\ pc = "merge" /\ i # NoNode
  /\ Len(merged) >= 2 /\ round >= 1

\* C8: heap_solution and optimized_heap_solution select, round by round,
\* the pair compressor_solution selects, return its output, and return the
\* expected string of every entry of their test tables
SameWins(a, b) ==
  \A x \in 1..Len(a.wins) : x <= Len(b.wins) => a.wins[x] = b.wins[x]

Expected(st) ==
  \A f \in FixtureTable :
    (st.phase = "done" /\ text = f.text /\ k = f.k) => st.out = f.expected

C8_HeapSelectors ==
  /\ SameWins(hs, rf) /\ SameWins(oh, rf)
  /\ hs.phase = "done" => hs.out = CompressText(text, k)
  /\ oh.phase = "done" => oh.out = CompressText(text, k)
  /\ (rf.phase = "done" /\ hs.phase = "done" /\ oh.phase = "done") =>
       (rf.out = hs.out /\ rf.out = oh.out /\ rf.wins = hs.wins
        /\ rf.wins = oh.wins)
  /\ Expected(hs) /\ Expected(oh) /\ Expected(rf)

C8_Witness ==
  /\ rf.phase = "done" /\ hs.phase = "done" /\ oh.phase = "done"
  /\ Len(rf.wins) >= 2
  /\ \E q \in PairsOf(text) :
       q # rf.wins[1] /\ Count(text, q) = Count(text, rf.wins[1])
  /\ hs.wins = rf.wins /\ oh.wins = rf.wins

\* C7: for lowercase text and 1 <= k <= 26 the incrementally maintained
\* index of heap_solution_MLE selects in every round the pair the full
\* rebuild of compressor_solution selects, its counts are the counts of a
\* fresh scan, and both functions return the same string
LiveSeq(st) == Walk(st.char, st.next, 0, Cardinality(DOMAIN st.char) + 1)

C7_Incremental ==
  (k >= 1 /\ Range(text) \subseteq Lowercase) =>
    /\ SameWins(ml, rf)
    /\ ml.phase = "run" =>
         \A pr \in DOMAIN ml.cnt : ml.cnt[pr] = Count(LiveSeq(ml), pr)
    /\ ml.phase = "done" => ml.out = CompressText(text, k)
    /\ (ml.phase = "done" /\ rf.phase = "done") =>
         (ml.out = rf.out /\ ml.wins = rf.wins)

C7_Witness ==
  /\ k >= 1 /\ ml.phase = "done" /\ rf.phase = "done"
  /\ Len(ml.wins) >= 2 /\ ml.wins = rf.wins
  /\ ml.wins[1][1] = ml.wins[1][2]
  /\ \E pr \in DOMAIN ml.pos_heaps :
       \E x \in 1..Len(ml.pos_heaps[pr]) :
         ml.pos_heaps[pr][x] \notin DOMAIN ml.at_pos

\* C9: a call whose rounds outnumber the 26 synthetic symbols is rejected
\* or every round's new symbol differs from the symbols of text, from the
\* symbols in the sequence and from the symbols introduced before
Distinct(sq) == \A a, b \in 1..Len(sq) : a # b => sq[a] # sq[b]

C9_NoSymbolReuse ==
  pc # "error" =>
    /\ Range(introduced) \cap Range(text) = {}
    /\ Distinct(introduced)
    /\ pc = "merge" => new_char \notin Range(roundStart)

\* C11: a merge acts on a live node i and its current successor j, and it
\* changes the symbol of i, the successor link of i and the predecessor link
\* of j's successor (when there is one), nothing else: head, every other
\* entry of char / next_arr / prev and the fields of j stay as they were
C11_MergeFrame ==
  [][merges' = merges + 1 =>
       LET j == next_arr[i]
           next_j == next_arr[j]
       IN /\ i \in Live /\ j # NoNode /\ j \in Live
          /\ prev[j] = i
          /\ << char[i], char[j] >> = best_pair
          /\ head' = head /\ n' = n
          /\ char' = [x \in DOMAIN char |-> IF x = i THEN new_char ELSE char[x]]
          /\ next_arr' = [x \in DOMAIN next_arr |->
                            IF x = i THEN next_j ELSE next_arr[x]]
          /\ prev' = [x \in DOMAIN prev |->
                        IF x = next_j THEN i ELSE prev[x]]
          /\ char'[j] = char[j] /\ next_arr'[j] = next_arr[j]
          /\ prev'[j] = prev[j]
          /\ removed' = removed \cup {j} /\ j \notin removed]_vars

C11_Witness ==
  /\ pc = "merge" /\ merged # << >>
  /\ LET a == merged[Len(merged)][1]
         b == merged[Len(merged)][2]
     IN /\ a > 0 /\ a \in Live /\ b \in removed
        /\ char[a] = new_char /\ char[b] \in Range(text)
        /\ next_arr[a] # NoNode /\ prev[next_arr[a]] = a
        /\ next_arr[b] = next_arr[a] /\ prev[b] = a

\* C12: the winner (or none) of the single pass does not depend on the
\* order in which the entries of the pair index are visited, and no two
\* pairs of the index share their leftmost position
RECURSIVE Perms(_)
Perms(S) ==
  IF S = {} THEN { << >> }
  ELSE UNION { { << x >> \o q : q \in Perms(S \ {x}) } : x \in S }

Without(sq, x) == SelectSeq(sq, LAMBDA e : e # x)

\* the visiting orders tried: every permutation of an index of at most
\* MaxPerm entries; of a larger one the reversal and the orders that move one
\* entry to the front or to the end
Orders(sq) ==
  IF Len(sq) <= MaxPerm THEN Perms(Range(sq))
  ELSE { [x \in 1..Len(sq) |-> sq[Len(sq) + 1 - x]] }
       \cup { << e >> \o Without(sq, e) : e \in Range(sq) }
       \cup { Append(Without(sq, e), e) : e \in Range(sq) }

Winner(b) == IF NoWinner(b) THEN None ELSE b.pair

C12_OrderIndependent ==
  (pc = "scan" /\ i = NoNode) =>
    /\ \A p, q \in DOMAIN pair_first_pos :
         p # q => pair_first_pos[p] # pair_first_pos[q]
    /\ Range(pair_order) = DOMAIN pair_count
    /\ \A o \in Orders(pair_order) :
         Winner(PickBest(o, 1, pair_count, pair_first_pos, BestInit))
           = Winner(PickBest(pair_order, 1, pair_count, pair_first_pos,
                             BestInit))

C12_Witness ==
  /\ pc = "scan" /\ i = NoNode /\ Len(pair_order) >= 3
  /\ \E p, q \in DOMAIN pair_count :
       /\ p # q /\ pair_count[p] = pair_count[q] /\ pair_count[p] >= 2
       /\ \A r \in DOMAIN pair_count : pair_count[r] <= pair_count[p]
       /\ pair_first_pos[p] < pair_first_pos[q]
       /\ pair_order[Len(pair_order)] = q

\* C13: at the end of a round that selected a winner no two adjacent live
\* nodes carry the winning pair, and during the walk none is left behind
\* the cursor
Upto(sq, x) ==
  IF x = NoNode THEN sq
  ELSE SubSeq(sq, 1, CHOOSE y \in 1..Len(sq) : sq[y] = x)

C13_Exhaustive ==
  /\ (pc = "merge" /\ i = NoNode) => Count(Materialize, best_pair) = 0
  /\ (pc = "merge" /\ i # NoNode) =>
       \A x \in 1..Len(Upto(LiveChain, i)) - 1 :
         << char[LiveChain[x]], char[LiveChain[x + 1]] >> # best_pair
  /\ (pc = "loop" /\ round >= 1) => Count(Materialize, best_pair) = 0

C13_Witness ==
  /\ pc = "merge" /\ i = NoNode
  /\ best_pair[1] = best_pair[2]
  /\ Len(merged) >= 2 /\ best_count > Len(merged)
  /\ Count(Materialize, best_pair) = 0

\* C14: a round that selected a winner merges m times with
\* 1 <= m <= count, m = count when the two symbols of the winner differ; the
\* sequence ends the round m symbols shorter and holds the new symbol
C14_MergeCount ==
  /\ pc = "merge" => Len(merged) <= best_count
  /\ (pc = "merge" /\ i = NoNode) =>
       /\ 1 <= Len(merged)
       /\ best_count = Count(roundStart, best_pair)
       /\ best_pair[1] # best_pair[2] => Len(merged) = best_count
       /\ Len(Materialize) = Len(roundStart) - Len(merged)
       /\ Len(Materialize) < Len(roundStart)
       /\ new_char \in Range(Materialize)

C14_Witness ==
  /\ pc = "merge" /\ i = NoNode
  /\ best_pair[1] = best_pair[2]
  /\ best_count >= 2 /\ Len(merged) = 1
  /\ roundStart = << "a", "a", "a" >>

====
